---- MODULE Spec2Model ----
(***************************************************************************)
(* Model of scripts/setup-local-ai.py: the setup pipeline                  *)
(*   check_python_version -> install_sentence_transformers ->              *)
(*   download_model                                                        *)
(* run by main, together with the probe program download_model generates.  *)
(*                                                                         *)
(* Environment: the interpreter version, the outcome of each subprocess    *)
(* and of each file-system call are chosen nondeterministically.  The      *)
(* exceptions modelled are those the calls themselves raise (subclasses    *)
(* of Exception: OSError from open/write/remove, OSError or                *)
(* UnicodeDecodeError from subprocess.run).  Writes to standard output     *)
(* are assumed to succeed and no signal interrupts the run.                *)
(***************************************************************************)
EXTENDS Integers, Sequences, FiniteSets

\* ---- bounds of the explored environment --------------------------------
MaxMajor == 4
MaxMinor == 9
MaxMicro == 1
MaxReturnCode == 2

\* ---- program constants (line 31) ---------------------------------------
MinMajor == 3
MinMinor == 8

Majors == 2..MaxMajor
Minors == 0..MaxMinor
Micros == 0..MaxMicro

\* sys.version_info, reduced to the three fields the script reads
Versions == [major : Majors, minor : Minors, micro : Micros]

\* the fixed order in which main calls the steps
Steps == <<"check_python_version", "install_sentence_transformers", "download_model">>

StepNames == {Steps[i] : i \in 1..Len(Steps)}

\* ---- subprocess.run ----------------------------------------------------
\* What subprocess.run(cmd, shell=True, capture_output=True, text=True)
\* gives back: either a CompletedProcess (kind "exit") with a return code
\* and, for the probe, the status of the JSON line on its stdout, or an
\* exception raised by the call (kind "raise").
NoOutcome == [kind |-> "none", returncode |-> 0, payload |-> "none"]

RaiseOutcome == [kind |-> "raise", returncode |-> 0, payload |-> "none"]

ExitOutcome(rc, payload) == [kind |-> "exit", returncode |-> rc, payload |-> payload]

\* ---- the generated probe program (model_script) ------------------------
\* env says which of its three steps work.  The import is at module level,
\* before the try block; SentenceTransformer(...) and model.encode(...) are
\* inside it.  An uncaught exception ends the child with return code 1 and
\* a traceback on stderr; otherwise the child ends with return code 0.
ProbeEnvs == [import_ok : BOOLEAN, model_ok : BOOLEAN, encode_ok : BOOLEAN]

probe_program(env) ==
    IF ~env.import_ok
      THEN [returncode |-> 1, payload |-> "none", uncaught |-> TRUE,
            errline |-> FALSE]
      ELSE IF env.model_ok /\ env.encode_ok
        THEN [returncode |-> 0, payload |-> "ready", uncaught |-> FALSE,
              errline |-> FALSE]
        ELSE [returncode |-> 0, payload |-> "error", uncaught |-> FALSE,
              errline |-> TRUE]

NoProbe == [ran |-> FALSE, failed |-> FALSE, returncode |-> 0,
            payload |-> "none", uncaught |-> FALSE, errline |-> FALSE]

\* ---- run_command -------------------------------------------------------
\* A mutated run_command that lets the exception of subprocess.run escape
\* and treats every completed subprocess as a success.
run_command_unguarded(o) ==
    IF o.kind = "exit"
      THEN [ret |-> "true", msgs |-> <<"cmd_info", "cmd_success">>]
      ELSE [ret |-> "raised", msgs |-> <<"cmd_info">>]

\* run_command(cmd, description): the value returned and the lines printed,
\* as a function of what subprocess.run did.
run_command(o) ==
    IF o.kind = "exit"
      THEN IF o.returncode = 0
             THEN [ret |-> "true", msgs |-> <<"cmd_info", "cmd_success">>]
             ELSE [ret |-> "false", msgs |-> <<"cmd_info", "cmd_error_stderr">>]
      ELSE [ret |-> "false", msgs |-> <<"cmd_info", "cmd_error_exc">>]

\* ---- check_python_version ----------------------------------------------
\* A mutated check with an off-by-one on the minor version.
check_python_version_strict(v) ==
    IF v.major >= MinMajor /\ v.minor > MinMinor
      THEN [ret |-> "true", msgs |-> <<"py_ok">>]
      ELSE [ret |-> "false", msgs |-> <<"py_err_need_3_8">>]

\* A mutated check that compares (major, minor) with (3, 8) as tuples.
check_python_version_tuple(v) ==
    IF v.major > MinMajor \/ (v.major = MinMajor /\ v.minor >= MinMinor)
      THEN [ret |-> "true", msgs |-> <<"py_ok">>]
      ELSE [ret |-> "false", msgs |-> <<"py_err_need_3_8">>]

check_python_version(v) ==
    IF v.major >= MinMajor /\ v.minor >= MinMinor
      THEN [ret |-> "true", msgs |-> <<"py_ok">>]
      ELSE [ret |-> "false", msgs |-> <<"py_err_need_3_8">>]

\* ---- main's branch after each step -------------------------------------
\* where main goes, what it prints and the code it passes to sys.exit
main_after_check(ret) ==
    IF ret = "true"
      THEN [pc |-> "install", exit |-> <<>>, msgs |-> <<>>]
      ELSE [pc |-> "exited", exit |-> <<1>>, msgs |-> <<>>]

\* A mutated main that prints the error but forgets sys.exit(1).
main_after_install_noexit(ret) ==
    IF ret = "true"
      THEN [pc |-> "download", exit |-> <<>>, msgs |-> <<>>]
      ELSE [pc |-> "download", exit |-> <<>>, msgs |-> <<"main_err_install">>]

main_after_install(ret) ==
    IF ret = "true"
      THEN [pc |-> "download", exit |-> <<>>, msgs |-> <<>>]
      ELSE [pc |-> "exited", exit |-> <<1>>, msgs |-> <<"main_err_install">>]

\* A mutated main that gives the model failure its own exit code.
main_after_download_code2(ret) ==
    IF ret = "true"
      THEN [pc |-> "summary", exit |-> <<>>, msgs |-> <<>>]
      ELSE [pc |-> "exited", exit |-> <<2>>, msgs |-> <<"main_err_download">>]

main_after_download(ret) ==
    IF ret = "true"
      THEN [pc |-> "summary", exit |-> <<>>, msgs |-> <<>>]
      ELSE [pc |-> "exited", exit |-> <<1>>, msgs |-> <<"main_err_download">>]

\* ---- state -------------------------------------------------------------
VARIABLES
    version,     \* sys.version_info of the interpreter running the script
    pc,          \* position of main
    invoked,     \* the steps main has called so far, in call order
    results,     \* per step: "none", "true", "false" or "raised"
    cmd,         \* per step: what subprocess.run did in that step
    probe,       \* what the probe program did when it ran
    fileExists,  \* temp_model_test.py exists in the working directory
    success,     \* download_model's local: "none" until run_command is done
    raisedIn,    \* steps inside which an exception was raised
    uncaught,    \* the process ended with an uncaught exception
    exit,        \* <<>> while running, <<code>> once the process has ended
    out          \* lines printed by the script, as tags

vars == <<version, pc, invoked, results, cmd, probe, fileExists, success,
          raisedIn, uncaught, exit, out>>

Init ==
    /\ version \in Versions
    /\ pc = "check"
    /\ invoked = <<>>
    /\ results = [s \in StepNames |-> "none"]
    /\ cmd = [s \in StepNames |-> NoOutcome]
    /\ probe = NoProbe
    /\ fileExists = FALSE
    /\ success = "none"
    /\ raisedIn = {}
    /\ uncaught = FALSE
    /\ exit = <<>>
    /\ out = <<"banner">>

\* An exception leaves step s and, main having no handler, the process:
\* the interpreter prints the traceback and ends with status 1.
Propagate(s) ==
    /\ results' = [results EXCEPT ![s] = "raised"]
    /\ raisedIn' = raisedIn \cup {s}
    /\ uncaught' = TRUE
    /\ exit' = <<1>>
    /\ pc' = "exited"

\* main, lines 97-99: call check_python_version and branch on its result
CheckPythonVersion ==
    /\ pc = "check"
    /\ LET s == "check_python_version"
           r == check_python_version(version)
           m == main_after_check(r.ret)
       IN /\ invoked' = Append(invoked, s)
          /\ results' = [results EXCEPT ![s] = r.ret]
          /\ out' = out \o r.msgs \o m.msgs
          /\ pc' = m.pc
          /\ exit' = m.exit
    /\ UNCHANGED <<version, cmd, probe, fileExists, success, raisedIn, uncaught>>

\* main, lines 101-104: call install_sentence_transformers (run_command on
\* "pip install sentence-transformers") and branch on its result
InstallSentenceTransformers ==
    /\ pc = "install"
    /\ \E o \in {RaiseOutcome} \cup {ExitOutcome(rc, "none") : rc \in 0..MaxReturnCode} :
         LET s == "install_sentence_transformers"
             r == run_command(o)
             m == main_after_install(r.ret)
         IN /\ invoked' = Append(invoked, s)
            /\ cmd' = [cmd EXCEPT ![s] = o]
            /\ raisedIn' = IF o.kind = "raise" THEN raisedIn \cup {s} ELSE raisedIn
            /\ out' = out \o r.msgs \o (IF r.ret = "raised" THEN <<>> ELSE m.msgs)
            /\ IF r.ret = "raised"
                 THEN /\ results' = [results EXCEPT ![s] = "raised"]
                      /\ uncaught' = TRUE
                      /\ exit' = <<1>>
                      /\ pc' = "exited"
                 ELSE /\ results' = [results EXCEPT ![s] = r.ret]
                      /\ uncaught' = uncaught
                      /\ exit' = m.exit
                      /\ pc' = m.pc
    /\ UNCHANGED <<version, probe, fileExists, success>>

\* download_model, line 78: open("temp_model_test.py", "w") creates the
\* file, or raises and creates nothing
DownloadOpen ==
    /\ pc = "download"
    /\ invoked' = Append(invoked, "download_model")
    /\ \E ok \in BOOLEAN :
         IF ok
           THEN /\ fileExists' = TRUE
                /\ pc' = "dl_write"
                /\ UNCHANGED <<results, raisedIn, uncaught, exit>>
           ELSE /\ fileExists' = fileExists
                /\ Propagate("download_model")
    /\ UNCHANGED <<version, cmd, probe, success, out>>

\* download_model, lines 78-79: f.write(model_script) and the close at the
\* end of the with block; neither is inside the try/finally
DownloadWrite ==
    /\ pc = "dl_write"
    /\ \E ok \in BOOLEAN :
         IF ok
           THEN /\ pc' = "dl_run"
                /\ UNCHANGED <<results, raisedIn, uncaught, exit>>
           ELSE Propagate("download_model")
    /\ UNCHANGED <<version, invoked, cmd, probe, fileExists, success, out>>

\* what "python temp_model_test.py" can do under shell=True: subprocess.run
\* raises; the shell cannot start the interpreter and reports a nonzero
\* status; or the probe program runs in some environment
ProbeRuns ==
    {[o |-> RaiseOutcome, p |-> NoProbe]}
    \cup {[o |-> ExitOutcome(rc, "none"), p |-> NoProbe] : rc \in 1..MaxReturnCode}
    \cup {LET r == probe_program(env)
          IN [o |-> ExitOutcome(r.returncode, r.payload),
              p |-> [ran |-> TRUE,
                     failed |-> ~(env.import_ok /\ env.model_ok /\ env.encode_ok),
                     returncode |-> r.returncode, payload |-> r.payload,
                     uncaught |-> r.uncaught, errline |-> r.errline]]
          : env \in ProbeEnvs}

\* download_model, lines 81-86: success = run_command("python
\* temp_model_test.py", ...) inside the try block
DownloadRun ==
    /\ pc = "dl_run"
    /\ \E run \in ProbeRuns :
         LET s == "download_model"
             r == run_command(run.o)
         IN /\ cmd' = [cmd EXCEPT ![s] = run.o]
            /\ probe' = run.p
            /\ raisedIn' = IF run.o.kind = "raise" THEN raisedIn \cup {s} ELSE raisedIn
            /\ success' = r.ret
            /\ out' = out \o r.msgs
    /\ pc' = "dl_finally"
    /\ UNCHANGED <<version, invoked, results, fileExists, uncaught, exit>>

\* download_model, lines 87-90, then main, lines 107-109: the finally block
\* removes the file if it exists (os.remove may raise); then the pending
\* return or exception goes on to main, which branches on the result
DownloadFinally ==
    /\ pc = "dl_finally"
    /\ \E removed \in BOOLEAN :
         LET s == "download_model"
             m == main_after_download(success)
         IN IF fileExists /\ ~removed
              THEN /\ Propagate(s)
                   /\ UNCHANGED <<fileExists, out>>
              ELSE /\ fileExists' = FALSE
                   /\ IF success = "raised"
                        THEN /\ Propagate(s)
                             /\ out' = out
                        ELSE /\ results' = [results EXCEPT ![s] = success]
                             /\ pc' = m.pc
                             /\ exit' = m.exit
                             /\ out' = out \o m.msgs
                             /\ UNCHANGED <<raisedIn, uncaught>>
    /\ UNCHANGED <<version, invoked, cmd, probe, success>>

\* main, lines 111-116: the success summary; the script then ends normally
Summary ==
    /\ pc = "summary"
    /\ out' = Append(out, "summary")
    /\ exit' = <<0>>
    /\ pc' = "exited"
    /\ UNCHANGED <<version, invoked, results, cmd, probe, fileExists, success,
                   raisedIn, uncaught>>

Next ==
    \/ CheckPythonVersion
    \/ InstallSentenceTransformers
    \/ DownloadOpen
    \/ DownloadWrite
    \/ DownloadRun
    \/ DownloadFinally
    \/ Summary

Spec == Init /\ [][Next]_vars

TypeOK ==
    /\ version \in Versions
    /\ pc \in {"check", "install", "download", "dl_write", "dl_run",
               "dl_finally", "summary", "exited"}
    /\ results \in [StepNames -> {"none", "true", "false", "raised"}]
    /\ fileExists \in BOOLEAN
    /\ success \in {"none", "true", "false", "raised"}
    /\ raisedIn \subseteq StepNames
    /\ uncaught \in BOOLEAN
    /\ exit \in {<<>>, <<0>>, <<1>>}

\* ---- properties --------------------------------------------------------
Gate == "check_python_version"

Installer == "install_sentence_transformers"

Fetcher == "download_model"

AtLeast38(v) == v.major > 3 \/ (v.major = 3 /\ v.minor >= 8)

\* C1: the steps main has invoked are always a prefix of
\* check_python_version, install_sentence_transformers, download_model (so
\* each at most once and in that order); a step has been invoked only if
\* every earlier step returned success; and once step k has returned
\* failure, k is the last step ever invoked.
C1_InvokedIsPrefixUntilFirstFailure ==
    /\ Len(invoked) <= Len(Steps)
    /\ \A i \in 1..Len(invoked) : invoked[i] = Steps[i]
    /\ \A i \in 1..Len(invoked) : \A j \in 1..(i - 1) : results[Steps[j]] = "true"
    /\ \A k \in 1..Len(Steps) : results[Steps[k]] = "false" => Len(invoked) = k

C1_Witness ==
    /\ pc = "exited"
    /\ invoked = <<Gate, Installer>>
    /\ results[Installer] = "false"

\* C2: once the process has ended, its exit code is 0 exactly when all three
\* steps returned success, and it is 1 whenever one of them returned
\* failure, whichever step that was.
C2_ExitCodeZeroIffAllSucceeded ==
    /\ pc # "exited" => exit = <<>>
    /\ pc = "exited" =>
         /\ exit # <<>>
         /\ exit = <<0>> <=> \A s \in StepNames : results[s] = "true"
         /\ (\E s \in StepNames : results[s] = "false") => exit = <<1>>

C2_Witness ==
    /\ pc = "exited"
    /\ results[Fetcher] = "false"
    /\ exit = <<1>>

\* C3 (as claimed): once download_model has ended, by returning or by an
\* exception leaving it, temp_model_test.py does not exist.
C3_ProbeFileGoneAfterStep ==
    results[Fetcher] # "none" => ~fileExists

\* C4: check_python_version returns success when major >= 3 and minor >= 8,
\* failure when major < 3 or when major = 3 and minor < 8, and the same
\* result for every micro.
C4_GateResult ==
    results[Gate] # "none" =>
      /\ (version.major >= 3 /\ version.minor >= 8) => results[Gate] = "true"
      /\ (version.major < 3 \/ (version.major = 3 /\ version.minor < 8))
            => results[Gate] = "false"
      /\ \A m \in Micros :
            check_python_version([version EXCEPT !.micro = m]).ret = results[Gate]

C4_Witness ==
    /\ results[Gate] = "true"
    /\ version.major = 3
    /\ version.minor = 8
    /\ version.micro > 0

\* C5 (as claimed): check_python_version returns success if and only if
\* (major, minor) >= (3, 8) in tuple order.
C5_GateIsTupleComparison ==
    results[Gate] # "none" => (results[Gate] = "true" <=> AtLeast38(version))

\* C6: install_sentence_transformers always returns a boolean to main: true
\* exactly when the subprocess exited with code 0, false for every nonzero
\* code and when subprocess.run raised; no exception leaves it.
C6_InstallerAlwaysBoolean ==
    results[Installer] # "none" =>
      /\ results[Installer] \in {"true", "false"}
      /\ results[Installer] = "true" <=>
           (cmd[Installer].kind = "exit" /\ cmd[Installer].returncode = 0)
      /\ cmd[Installer].kind = "raise" => results[Installer] = "false"

C6_Witness ==
    /\ cmd[Installer].kind = "raise"
    /\ results[Installer] = "false"
    /\ Installer \in raisedIn
    /\ pc = "exited"

\* C7 (as claimed): the process never ends with an uncaught exception; a
\* step inside which an exception was raised returns failure to main.
C7_NoUncaughtException ==
    /\ ~uncaught
    /\ \A s \in raisedIn : results[s] \in {"none", "false"}

\* C8 (as claimed): when the version check and the install succeeded and
\* the probe subprocess exited with code 0, main ends with the success
\* summary and exit code 0, whatever the probe's JSON says.
C8_ExitCodeZeroProbeMeansSuccess ==
    ( /\ pc = "exited"
      /\ results[Gate] = "true"
      /\ results[Installer] = "true"
      /\ cmd[Fetcher].kind = "exit"
      /\ cmd[Fetcher].returncode = 0 )
    => /\ exit = <<0>>
       /\ out[Len(out)] = "summary"

\* C9 (as claimed): whichever step of the probe program fails (import,
\* model construction, encoding), it ends without an uncaught exception,
\* having printed the error line and the JSON object with status "error".
C9_ProbeNeverRaises ==
    (probe.ran /\ probe.failed) =>
       /\ ~probe.uncaught
       /\ probe.errline
       /\ probe.payload = "error"

====
